---- MODULE Spec2Model ----
(***************************************************************************)
(* Classic Checkers: the rules engine (logic.ts part of src/src/App.tsx),  *)
(* the minimax opponent and the React component state of App.             *)
(*                                                                         *)
(* A board is the 8x8 array of the source: board[row][col] is a piece      *)
(* record, or None for a null cell.  Positions and moves are the records   *)
(* of src/src/types.ts; an absent optional field is NoPos.                 *)
(***************************************************************************)
EXTENDS Integers, Sequences, FiniteSets, TLC

VARIABLES board, turn, selectedPos, winner, gameMode, difficulty,
          isAiThinking, mustJumpFrom, timer, last, moveCount, changes, call

vars == <<board, turn, selectedPos, winner, gameMode, difficulty,
          isAiThinking, mustJumpFrom, timer, last, moveCount, changes, call>>

----------------------------------------------------------------------------
(* Types (src/src/types.ts) *)

BOARD_SIZE == 8

Idx == 0 .. (BOARD_SIZE - 1)

Players == {"red", "black"}

\* null cell of a BoardState
None == [player |-> "none", isKing |-> FALSE]

Piece(p, k) == [player |-> p, isKing |-> k]

\* null Position (mustJumpFrom = null, selectedPos = null, jumpedPiece absent)
NoPos == [row |-> -1, col |-> -1]

Pos(r, c) == [row |-> r, col |-> c]

AllPos == {Pos(r, c) : r \in Idx, c \in Idx}

\* null Move (getAiMove returning null)
NoMove == [from |-> NoPos, to |-> NoPos, isJump |-> FALSE, jumpedPiece |-> NoPos]

Other(p) == IF p = "red" THEN "black" ELSE "red"

EmptyBoard == [r \in Idx |-> [c \in Idx |-> None]]

----------------------------------------------------------------------------
(* logic.ts *)

\* a faulty initializeBoard: red men from row 4 on
initializeBoardFromRowFour ==
  [row \in Idx |-> [col \in Idx |->
     IF (row + col) % 2 = 1
       THEN IF row < 3 THEN Piece("black", FALSE)
            ELSE IF row > 3 THEN Piece("red", FALSE)
            ELSE None
       ELSE None]]

initializeBoard ==
  [row \in Idx |-> [col \in Idx |->
     IF (row + col) % 2 = 1
       THEN IF row < 3 THEN Piece("black", FALSE)
            ELSE IF row > 4 THEN Piece("red", FALSE)
            ELSE None
       ELSE None]]

isValidPos(row, col) ==
  row >= 0 /\ row < BOARD_SIZE /\ col >= 0 /\ col < BOARD_SIZE

\* a faulty direction list: a man also steps straight ahead
DirectionsStraight(piece) ==
  IF piece.isKing
    THEN << <<-1, -1>>, <<-1, 1>>, <<1, -1>>, <<1, 1>> >>
    ELSE IF piece.player = "red"
      THEN << <<-1, -1>>, <<-1, 0>>, <<-1, 1>> >>
      ELSE << <<1, -1>>, <<1, 0>>, <<1, 1>> >>

\* the direction list of a piece, in the order of the source
Directions(piece) ==
  IF piece.isKing
    THEN << <<-1, -1>>, <<-1, 1>>, <<1, -1>>, <<1, 1>> >>
    ELSE IF piece.player = "red"
      THEN << <<-1, -1>>, <<-1, 1>> >>
      ELSE << <<1, -1>>, <<1, 1>> >>

\* the jumps pushed by the first forEach of getValidMoves
JumpMoves(b, pos) ==
  LET piece == b[pos.row][pos.col]
      CanJump(d) ==
        LET jumpRow == pos.row + d[1] * 2
            jumpCol == pos.col + d[2] * 2
            midRow  == pos.row + d[1]
            midCol  == pos.col + d[2]
        IN  /\ isValidPos(jumpRow, jumpCol)
            /\ b[jumpRow][jumpCol] = None
            /\ b[midRow][midCol] # None
            /\ b[midRow][midCol].player # piece.player
      Jump(d) == [from |-> pos,
                  to |-> Pos(pos.row + d[1] * 2, pos.col + d[2] * 2),
                  isJump |-> TRUE,
                  jumpedPiece |-> Pos(pos.row + d[1], pos.col + d[2])]
      open == SelectSeq(Directions(piece), CanJump)
  IN  [i \in 1 .. Len(open) |-> Jump(open[i])]

\* the simple moves pushed by the second forEach of getValidMoves
SlideMoves(b, pos) ==
  LET piece == b[pos.row][pos.col]
      CanSlide(d) ==
        /\ isValidPos(pos.row + d[1], pos.col + d[2])
        /\ b[pos.row + d[1]][pos.col + d[2]] = None
      Slide(d) == [from |-> pos,
                   to |-> Pos(pos.row + d[1], pos.col + d[2]),
                   isJump |-> FALSE,
                   jumpedPiece |-> NoPos]
      open == SelectSeq(Directions(piece), CanSlide)
  IN  [i \in 1 .. Len(open) |-> Slide(open[i])]

\* a faulty getValidMoves: mustJump is ignored
getValidMovesIgnoringMustJump(b, pos, mustJump) ==
  IF b[pos.row][pos.col] = None THEN << >>
  ELSE JumpMoves(b, pos) \o SlideMoves(b, pos)

getValidMoves(b, pos, mustJump) ==
  IF b[pos.row][pos.col] = None THEN << >>
  ELSE LET moves == JumpMoves(b, pos)
       IN  IF Len(moves) > 0 /\ mustJump THEN moves
           ELSE IF ~mustJump \/ Len(moves) = 0
                  THEN moves \o SlideMoves(b, pos)
                  ELSE moves

\* moves.filter(m => m.isJump)
IsJumpMove(m) == m.isJump

FilterJumps(moves) == SelectSeq(moves, IsJumpMove)

\* moves.some(m => m.isJump)
SomeJump(moves) == \E i \in 1 .. Len(moves) : moves[i].isJump

hasAnyJumps(b, player) ==
  \E r \in Idx, c \in Idx :
     /\ b[r][c] # None
     /\ b[r][c].player = player
     /\ SomeJump(getValidMoves(b, Pos(r, c), FALSE))

----------------------------------------------------------------------------
(* Object identity of the pieces.  simulateMove and executeMove write to   *)
(* the cells of a fresh grid and assign piece.isKing on a piece object;    *)
(* whether the caller's board sees that assignment depends on whether the  *)
(* grid holds copies ({ ...p }) or the caller's own objects.  A Ref names  *)
(* a piece object: the caller's object of cell (row, col), or the copy     *)
(* made of it.                                                             *)

NoRef == [fresh |-> FALSE, row |-> -1, col |-> -1]

OwnRef(r, c) == [fresh |-> FALSE, row |-> r, col |-> c]

CopyRef(r, c) == [fresh |-> TRUE, row |-> r, col |-> c]

\* a faulty cloneBoard: board.map(row => [...row]), new rows, same pieces
cloneBoardShallow(b) ==
  [r \in Idx |-> [c \in Idx |-> IF b[r][c] = None THEN NoRef ELSE OwnRef(r, c)]]

\* board.map(row => row.map(p => p ? { ...p } : null)): new rows, new pieces
cloneBoard(b) ==
  [r \in Idx |-> [c \in Idx |-> IF b[r][c] = None THEN NoRef ELSE CopyRef(r, c)]]

\* faulty cell assignments: the jumped piece is left on the board
MovedGridKeepsJumped(grid, move) ==
  LET piece == grid[move.from.row][move.from.col]
      g1 == [grid EXCEPT ![move.to.row][move.to.col] = piece]
  IN  [g1 EXCEPT ![move.from.row][move.from.col] = NoRef]

\* the grid after the cell assignments of a move (from, to, jumped piece)
MovedGrid(grid, move) ==
  LET piece == grid[move.from.row][move.from.col]
      g1 == [grid EXCEPT ![move.to.row][move.to.col] = piece]
      g2 == [g1 EXCEPT ![move.from.row][move.from.col] = NoRef]
  IN  IF move.isJump /\ move.jumpedPiece # NoPos
        THEN [g2 EXCEPT ![move.jumpedPiece.row][move.jumpedPiece.col] = NoRef]
        ELSE g2

\* a faulty promotion test: the promotion rows of the players exchanged
PromotesSwapped(piece, move) ==
  /\ ~piece.isKing
  /\ \/ (piece.player = "red" /\ move.to.row = BOARD_SIZE - 1)
     \/ (piece.player = "black" /\ move.to.row = 0)

\* the promotion test on the moved piece
Promotes(piece, move) ==
  /\ ~piece.isKing
  /\ \/ (piece.player = "red" /\ move.to.row = 0)
     \/ (piece.player = "black" /\ move.to.row = BOARD_SIZE - 1)

\* the value of a piece object after the call: only the moved piece object
\* can have been assigned to (piece.isKing = true)
ValueAfter(b, ref, movedRef, promoted) ==
  IF ref = NoRef THEN None
  ELSE IF promoted /\ ref = movedRef
    THEN [b[ref.row][ref.col] EXCEPT !.isKing = TRUE]
    ELSE b[ref.row][ref.col]

\* a grid of refs read as a board of values
Deref(b, grid, movedRef, promoted) ==
  [r \in Idx |-> [c \in Idx |-> ValueAfter(b, grid[r][c], movedRef, promoted)]]

\* the caller's board as the caller sees it after the call
InputAfter(b, movedRef, promoted) ==
  [r \in Idx |-> [c \in Idx |->
     IF b[r][c] = None THEN None
     ELSE ValueAfter(b, OwnRef(r, c), movedRef, promoted)]]

\* reading piece.isKing of a null piece throws: no result
Threw == [threw |-> TRUE, newBoard |-> << >>, nextTurn |-> "none",
          nextMustJumpFrom |-> NoPos]

\* a faulty simulateMove: the follow-up test without the isJump condition
simulateMoveChainsAfterSlide(b, move, currentPlayer) ==
  LET grid0 == cloneBoard(b)
      ref == grid0[move.from.row][move.from.col]
      grid == MovedGrid(grid0, move)
  IN  IF ref = NoRef THEN Threw
      ELSE
        LET promoted == Promotes(b[ref.row][ref.col], move)
            newBoard == Deref(b, grid, ref, promoted)
            continues ==
              Len(FilterJumps(getValidMoves(newBoard, move.to, TRUE))) > 0
        IN  [threw |-> FALSE,
             newBoard |-> newBoard,
             nextTurn |-> IF continues THEN currentPlayer ELSE Other(currentPlayer),
             nextMustJumpFrom |-> IF continues THEN move.to ELSE NoPos]

\* a faulty simulateMove: the follow-up jumps are looked for before the
\* promotion
simulateMoveFollowUpBeforeCrowning(b, move, currentPlayer) ==
  LET grid0 == cloneBoard(b)
      ref == grid0[move.from.row][move.from.col]
      grid == MovedGrid(grid0, move)
  IN  IF ref = NoRef THEN Threw
      ELSE
        LET promoted == Promotes(b[ref.row][ref.col], move)
            newBoard == Deref(b, grid, ref, promoted)
            continues ==
              /\ move.isJump
              /\ Len(FilterJumps(getValidMoves(Deref(b, grid, ref, FALSE),
                                               move.to, TRUE))) > 0
        IN  [threw |-> FALSE,
             newBoard |-> newBoard,
             nextTurn |-> IF continues THEN currentPlayer ELSE Other(currentPlayer),
             nextMustJumpFrom |-> IF continues THEN move.to ELSE NoPos]

\* a faulty simulateMove: a null piece is skipped (piece?.isKing), the
\* board returned as it is
simulateMoveNoThrow(b, move, currentPlayer) ==
  LET grid0 == cloneBoard(b)
      ref == grid0[move.from.row][move.from.col]
      grid == MovedGrid(grid0, move)
      promoted == ref # NoRef /\ Promotes(b[ref.row][ref.col], move)
      newBoard == Deref(b, grid, ref, promoted)
      continues ==
        /\ move.isJump
        /\ Len(FilterJumps(getValidMoves(newBoard, move.to, TRUE))) > 0
  IN  [threw |-> FALSE,
       newBoard |-> newBoard,
       nextTurn |-> IF continues THEN currentPlayer ELSE Other(currentPlayer),
       nextMustJumpFrom |-> IF continues THEN move.to ELSE NoPos]

simulateMove(b, move, currentPlayer) ==
  LET grid0 == cloneBoard(b)
      ref == grid0[move.from.row][move.from.col]
      grid == MovedGrid(grid0, move)
  IN  IF ref = NoRef THEN Threw
      ELSE
        LET promoted == Promotes(b[ref.row][ref.col], move)
            newBoard == Deref(b, grid, ref, promoted)
            continues ==
              /\ move.isJump
              /\ Len(FilterJumps(getValidMoves(newBoard, move.to, TRUE))) > 0
        IN  [threw |-> FALSE,
             newBoard |-> newBoard,
             nextTurn |-> IF continues THEN currentPlayer ELSE Other(currentPlayer),
             nextMustJumpFrom |-> IF continues THEN move.to ELSE NoPos]

\* the board passed to simulateMove, as its caller reads it after the call
simulateMoveInput(b, move) ==
  LET ref == cloneBoard(b)[move.from.row][move.from.col]
  IN  IF ref = NoRef THEN b
      ELSE InputAfter(b, ref, Promotes(b[ref.row][ref.col], move))

----------------------------------------------------------------------------
(* Heuristic evaluation and minimax with alpha-beta pruning *)

\* a faulty cell value: the back row bonus only for the pieces of player
CellScoreOwnBackRow(b, r, c, player) ==
  LET piece == b[r][c]
      base == IF piece.isKing THEN 30 ELSE 10
      own  == piece.player = player
      adv  == IF piece.player = "red"
                THEN (7 - r) + (IF r = 7 /\ own THEN 2 ELSE 0)
                ELSE r + (IF r = 0 /\ own THEN 2 ELSE 0)
      ctr  == IF c >= 2 /\ c <= 5 /\ r >= 2 /\ r <= 5 THEN 2 ELSE 0
      value == base + adv + ctr
  IN  IF piece = None THEN 0
      ELSE IF own THEN value ELSE 0 - value

\* the value one cell adds to the score of evaluateBoard
CellScore(b, r, c, player) ==
  LET piece == b[r][c]
      base == IF piece.isKing THEN 30 ELSE 10
      adv  == IF piece.player = "red"
                THEN (7 - r) + (IF r = 7 THEN 2 ELSE 0)
                ELSE r + (IF r = 0 THEN 2 ELSE 0)
      ctr  == IF c >= 2 /\ c <= 5 /\ r >= 2 /\ r <= 5 THEN 2 ELSE 0
      value == base + adv + ctr
  IN  IF piece = None THEN 0
      ELSE IF piece.player = player THEN value ELSE 0 - value

RECURSIVE SumCells(_, _, _)
\* the double loop of evaluateBoard, cell k = r * BOARD_SIZE + c onwards
SumCells(b, player, k) ==
  IF k = BOARD_SIZE * BOARD_SIZE THEN 0
  ELSE CellScore(b, k \div BOARD_SIZE, k % BOARD_SIZE, player)
         + SumCells(b, player, k + 1)

evaluateBoard(b, player) == SumCells(b, player, 0)

RECURSIVE CollectMoves(_, _, _, _)
\* the double loop that pushes the moves of every piece of a player,
\* filtered to jumps when globalJump, cell k onwards
CollectMoves(b, player, globalJump, k) ==
  IF k = BOARD_SIZE * BOARD_SIZE THEN << >>
  ELSE LET r == k \div BOARD_SIZE
           c == k % BOARD_SIZE
           moves == getValidMoves(b, Pos(r, c), FALSE)
       IN  (IF b[r][c] # None /\ b[r][c].player = player
              THEN IF globalJump THEN FilterJumps(moves) ELSE moves
              ELSE << >>)
           \o CollectMoves(b, player, globalJump, k + 1)

\* -Infinity / Infinity of the search window: beyond every score
Infinity == 1000000

Max(a, b) == IF a >= b THEN a ELSE b

Min(a, b) == IF a <= b THEN a ELSE b

\* possibleMoves of a minimax node
MinimaxMoves(b, maximizingPlayer, player, mjf) ==
  IF mjf # NoPos THEN FilterJumps(getValidMoves(b, mjf, TRUE))
  ELSE LET currentPlayer == IF maximizingPlayer THEN player ELSE Other(player)
       IN  CollectMoves(b, currentPlayer, hasAnyJumps(b, currentPlayer), 0)

RECURSIVE minimax(_, _, _, _, _, _, _)
RECURSIVE MaxLoop(_, _, _, _, _, _, _, _)
RECURSIVE MinLoop(_, _, _, _, _, _, _, _)

\* the arguments of the recursive call for a move of a maximizing node
MaxChild(b, depth, player, move) ==
  LET sim == simulateMove(b, move, player)
      isTurnContinuing == sim.nextTurn = player
  IN  [newBoard |-> sim.newBoard,
       nextDepth |-> IF isTurnContinuing THEN depth ELSE depth - 1,
       nextMaximizing |-> isTurnContinuing,
       nextMustJumpFrom |-> sim.nextMustJumpFrom]

\* a faulty minimizing branch: nextMaximizing as in the maximizing branch
MinChildFlagOfMax(b, depth, player, move) ==
  LET opponent == Other(player)
      sim == simulateMove(b, move, opponent)
      isTurnContinuing == sim.nextTurn = opponent
  IN  [newBoard |-> sim.newBoard,
       nextDepth |-> IF isTurnContinuing THEN depth ELSE depth - 1,
       nextMaximizing |-> isTurnContinuing,
       nextMustJumpFrom |-> sim.nextMustJumpFrom]

\* the arguments of the recursive call for a move of a minimizing node
MinChild(b, depth, player, move) ==
  LET opponent == Other(player)
      sim == simulateMove(b, move, opponent)
      isTurnContinuing == sim.nextTurn = opponent
  IN  [newBoard |-> sim.newBoard,
       nextDepth |-> IF isTurnContinuing THEN depth ELSE depth - 1,
       nextMaximizing |-> ~isTurnContinuing,
       nextMustJumpFrom |-> sim.nextMustJumpFrom]

\* the recursive call with the arguments of a child
ChildValue(child, alpha, beta, player) ==
  minimax(child.newBoard, child.nextDepth, alpha, beta, child.nextMaximizing,
          player, child.nextMustJumpFrom)

\* the for loop of the maximizing branch from move i on
MaxLoop(b, depth, alpha, beta, player, moves, i, maxEval) ==
  IF i > Len(moves) THEN maxEval
  ELSE LET evalScore == ChildValue(MaxChild(b, depth, player, moves[i]),
                                   alpha, beta, player)
           newMax == Max(maxEval, evalScore)
           newAlpha == Max(alpha, evalScore)
       IN  IF beta <= newAlpha THEN newMax
           ELSE MaxLoop(b, depth, newAlpha, beta, player, moves, i + 1, newMax)

RECURSIVE MinLoopWrongCut(_, _, _, _, _, _, _, _)

\* a faulty minimizing branch: the cutoff test the wrong way round
MinLoopWrongCut(b, depth, alpha, beta, player, moves, i, minEval) ==
  IF i > Len(moves) THEN minEval
  ELSE LET evalScore == ChildValue(MinChild(b, depth, player, moves[i]),
                                   alpha, beta, player)
           newMin == Min(minEval, evalScore)
           newBeta == Min(beta, evalScore)
       IN  IF alpha <= newBeta THEN newMin
           ELSE MinLoopWrongCut(b, depth, alpha, newBeta, player, moves, i + 1, newMin)

\* the for loop of the minimizing branch from move i on
MinLoop(b, depth, alpha, beta, player, moves, i, minEval) ==
  IF i > Len(moves) THEN minEval
  ELSE LET evalScore == ChildValue(MinChild(b, depth, player, moves[i]),
                                   alpha, beta, player)
           newMin == Min(minEval, evalScore)
           newBeta == Min(beta, evalScore)
       IN  IF newBeta <= alpha THEN newMin
           ELSE MinLoop(b, depth, alpha, newBeta, player, moves, i + 1, newMin)

\* a faulty minimax: the no-moves scores of the two sides exchanged
minimaxSwappedSentinel(b, depth, alpha, beta, maximizingPlayer, player, mjf) ==
  IF depth = 0 THEN evaluateBoard(b, player)
  ELSE LET possibleMoves == MinimaxMoves(b, maximizingPlayer, player, mjf)
       IN  IF Len(possibleMoves) = 0
             THEN (IF maximizingPlayer THEN 10000 ELSE -10000)
           ELSE IF maximizingPlayer
             THEN MaxLoop(b, depth, alpha, beta, player, possibleMoves, 1, 0 - Infinity)
             ELSE MinLoop(b, depth, alpha, beta, player, possibleMoves, 1, Infinity)

minimax(b, depth, alpha, beta, maximizingPlayer, player, mjf) ==
  IF depth = 0 THEN evaluateBoard(b, player)
  ELSE LET possibleMoves == MinimaxMoves(b, maximizingPlayer, player, mjf)
       IN  IF Len(possibleMoves) = 0
             THEN (IF maximizingPlayer THEN -10000 ELSE 10000)
           ELSE IF maximizingPlayer
             THEN MaxLoop(b, depth, alpha, beta, player, possibleMoves, 1, 0 - Infinity)
             ELSE MinLoop(b, depth, alpha, beta, player, possibleMoves, 1, Infinity)

\* a faulty possibleMoves: mustJumpFrom is not looked at
AiMovesIgnoringForced(b, player, mjf) ==
  CollectMoves(b, player, hasAnyJumps(b, player), 0)

\* a faulty possibleMoves: the moves of every piece, never filtered to jumps
AiMovesUnfiltered(b, player, mjf) ==
  IF mjf # NoPos THEN FilterJumps(getValidMoves(b, mjf, TRUE))
  ELSE CollectMoves(b, player, FALSE, 0)

\* possibleMoves of getAiMove
AiMoves(b, player, mjf) ==
  IF mjf # NoPos THEN FilterJumps(getValidMoves(b, mjf, TRUE))
  ELSE CollectMoves(b, player, hasAnyJumps(b, player), 0)

\* a faulty root loop: the depth is passed on as it is
RootChildSameDepth(b, depth, player, move) ==
  LET sim == simulateMove(b, move, player)
      isTurnContinuing == sim.nextTurn = player
  IN  [newBoard |-> sim.newBoard,
       nextDepth |-> depth,
       nextMaximizing |-> isTurnContinuing,
       nextMustJumpFrom |-> sim.nextMustJumpFrom]

\* the arguments of the minimax call for a move of the loop of getAiMove
RootChild(b, depth, player, move) ==
  LET sim == simulateMove(b, move, player)
      isTurnContinuing == sim.nextTurn = player
  IN  [newBoard |-> sim.newBoard,
       nextDepth |-> IF isTurnContinuing THEN depth ELSE depth - 1,
       nextMaximizing |-> isTurnContinuing,
       nextMustJumpFrom |-> sim.nextMustJumpFrom]

\* the score getAiMove gives a root move at a search depth
RootScore(b, player, depth, move) ==
  LET child == RootChild(b, depth, player, move)
  IN  minimax(child.newBoard, child.nextDepth, 0 - Infinity, Infinity,
              child.nextMaximizing, player, child.nextMustJumpFrom)

SearchDepth(d) == IF d = "medium" THEN 2 ELSE 4

RECURSIVE BestLoop(_, _, _, _, _)
\* the scan of getAiMove over the shuffled moves: strict improvement only
BestLoop(moves, score, i, bestMove, maxEval) ==
  IF i > Len(moves) THEN bestMove
  ELSE IF score[moves[i]] > maxEval
    THEN BestLoop(moves, score, i + 1, moves[i], score[moves[i]])
    ELSE BestLoop(moves, score, i + 1, bestMove, maxEval)

\* a faulty shuffle: the list is left in the order it was built in
NoShuffle(moves) == {moves}

\* the orders possibleMoves.sort(() => Math.random() - 0.5) can leave
Shuffles(moves) ==
  {[i \in 1 .. Len(moves) |-> moves[p[i]]] : p \in Permutations(1 .. Len(moves))}

\* the moves of a move list, as a set
MoveSet(moves) == {moves[i] : i \in 1 .. Len(moves)}

\* the score of every root move, computed once each as in the for loop
RootScores(b, player, depth, possibleMoves) ==
  [m \in MoveSet(possibleMoves) |-> RootScore(b, player, depth, m)]

\* the moves the scan can end on, over the orders the shuffle can leave
BestMoves(possibleMoves, score) ==
  {BestLoop(s, score, 1, possibleMoves[1], 0 - Infinity) :
      s \in Shuffles(possibleMoves)}

\* a run of getAiMove: the values it can return (NoMove: it returns null)
\* and the score its for loop computed for each root move
AiSearch(b, player, d, mjf) ==
  LET possibleMoves == AiMoves(b, player, mjf)
  IN  IF Len(possibleMoves) = 0
        THEN [returns |-> {NoMove}, scores |-> << >>]
      ELSE IF d = "easy"
        THEN [returns |-> MoveSet(possibleMoves), scores |-> << >>]
      ELSE CHOOSE run \in
             {[returns |-> BestMoves(pm, score), scores |-> score] :
                <<pm, score>> \in
                   {<<possibleMoves,
                      RootScores(b, player, SearchDepth(d), possibleMoves)>>}} :
             TRUE

\* the values getAiMove can return
getAiMove(b, player, d, mjf) == AiSearch(b, player, d, mjf).returns

----------------------------------------------------------------------------
(* App component: executeMove, checkWinCondition, validMoves *)

\* a faulty checkWinCondition: only the pieces are counted
checkWinConditionPiecesOnly(currentBoard, nextPlayer) ==
  IF \E r \in Idx, c \in Idx : currentBoard[r][c].player = nextPlayer
    THEN "none"
    ELSE Other(nextPlayer)

\* the winner checkWinCondition sets, "none" when it sets none
checkWinCondition(currentBoard, nextPlayer) ==
  LET hasPieces == \E r \in Idx, c \in Idx : currentBoard[r][c].player = nextPlayer
      hasMoves == \E r \in Idx, c \in Idx :
                     /\ currentBoard[r][c].player = nextPlayer
                     /\ Len(getValidMoves(currentBoard, Pos(r, c), FALSE)) > 0
  IN  IF ~hasPieces THEN Other(nextPlayer)
      ELSE IF ~hasMoves THEN Other(nextPlayer)
      ELSE "none"

\* executeMove throws on a null piece before any setter is called
ExecThrew == [threw |-> TRUE, board |-> << >>, mustJumpFrom |-> NoPos,
              selectedPos |-> NoPos, turn |-> "none", winner |-> "none"]

\* a faulty executeMove: every jump keeps the turn and forces its landing
\* square, with no follow-up test
executeMoveForcesAfterEveryJump(b, t, move) ==
  LET grid0 == [r \in Idx |-> [c \in Idx |->
                   IF b[r][c] = None THEN NoRef ELSE CopyRef(r, c)]]
      ref == grid0[move.from.row][move.from.col]
      grid == MovedGrid(grid0, move)
  IN  IF ref = NoRef THEN ExecThrew
      ELSE
        LET promoted == Promotes(b[ref.row][ref.col], move)
            newBoard == Deref(b, grid, ref, promoted)
        IN  IF move.isJump
              THEN [threw |-> FALSE, board |-> newBoard, mustJumpFrom |-> move.to,
                    selectedPos |-> move.to, turn |-> t, winner |-> "none"]
              ELSE [threw |-> FALSE, board |-> newBoard, mustJumpFrom |-> NoPos,
                    selectedPos |-> NoPos, turn |-> Other(t),
                    winner |-> checkWinCondition(newBoard, Other(t))]

\* a faulty executeMove: the turn always passes, no follow-up test
executeMoveNoFollowUp(b, t, move) ==
  LET grid0 == [r \in Idx |-> [c \in Idx |->
                   IF b[r][c] = None THEN NoRef ELSE CopyRef(r, c)]]
      ref == grid0[move.from.row][move.from.col]
      grid == MovedGrid(grid0, move)
  IN  IF ref = NoRef THEN ExecThrew
      ELSE
        LET promoted == Promotes(b[ref.row][ref.col], move)
            newBoard == Deref(b, grid, ref, promoted)
        IN  [threw |-> FALSE, board |-> newBoard, mustJumpFrom |-> NoPos,
             selectedPos |-> NoPos, turn |-> Other(t),
             winner |-> checkWinCondition(newBoard, Other(t))]

\* the state executeMove sets, from the board and turn of its render;
\* winner "none": setWinner is not called
executeMove(b, t, move) ==
  LET grid0 == [r \in Idx |-> [c \in Idx |->
                   IF b[r][c] = None THEN NoRef ELSE CopyRef(r, c)]]
      ref == grid0[move.from.row][move.from.col]
      grid == MovedGrid(grid0, move)
  IN  IF ref = NoRef THEN ExecThrew
      ELSE
        LET promoted == Promotes(b[ref.row][ref.col], move)
            newBoard == Deref(b, grid, ref, promoted)
            followUpMoves == FilterJumps(getValidMoves(newBoard, move.to, TRUE))
        IN  IF move.isJump /\ Len(followUpMoves) > 0
              THEN [threw |-> FALSE, board |-> newBoard, mustJumpFrom |-> move.to,
                    selectedPos |-> move.to, turn |-> t, winner |-> "none"]
              ELSE [threw |-> FALSE, board |-> newBoard, mustJumpFrom |-> NoPos,
                    selectedPos |-> NoPos, turn |-> Other(t),
                    winner |-> checkWinCondition(newBoard, Other(t))]

\* the board of the render, as read after executeMove returned
executeMoveInput(b, move) ==
  LET ref == IF b[move.from.row][move.from.col] = None THEN NoRef
             ELSE CopyRef(move.from.row, move.from.col)
  IN  IF ref = NoRef THEN b
      ELSE InputAfter(b, ref, Promotes(b[ref.row][ref.col], move))

\* a faulty validMoves memo: no filter when another piece can jump
validMovesUnfiltered(b, sel, mjf, t, thinking, mode) ==
  IF sel = NoPos THEN << >>
  ELSE IF thinking THEN << >>
  ELSE IF mode = "ai" /\ t = "black" THEN << >>
  ELSE IF mjf # NoPos /\ (sel.row # mjf.row \/ sel.col # mjf.col) THEN << >>
  ELSE LET moves == getValidMoves(b, sel, FALSE)
       IN  IF mjf # NoPos THEN FilterJumps(moves) ELSE moves

\* the validMoves memo
validMoves(b, sel, mjf, t, thinking, mode) ==
  IF sel = NoPos THEN << >>
  ELSE IF thinking THEN << >>
  ELSE IF mode = "ai" /\ t = "black" THEN << >>
  ELSE IF mjf # NoPos /\ (sel.row # mjf.row \/ sel.col # mjf.col) THEN << >>
  ELSE LET moves == getValidMoves(b, sel, FALSE)
       IN  IF mjf # NoPos THEN FilterJumps(moves)
           ELSE IF hasAnyJumps(b, t) THEN FilterJumps(moves)
           ELSE moves

\* validMoves.find(m => m.to.row === row && m.to.col === col), NoMove if none
FindMove(moves, row, col) ==
  LET hits == {i \in 1 .. Len(moves) : moves[i].to = Pos(row, col)}
  IN  IF hits = {} THEN NoMove
      ELSE moves[CHOOSE i \in hits : \A j \in hits : i <= j]

----------------------------------------------------------------------------
(* Bounds *)

\* moves applied since the last reset, in the App specification
MaxMoves == 3

\* changes of game mode or difficulty made in the menu
MaxSettings == 1

\* input boards of the function specifications: one piece of one player and
\* at most MaxEnemies pieces of the other, on the playable squares of the
\* first SeedCols columns, the enemies within SeedReach rows of the piece
MaxEnemies == 2

SeedCols == 2

SeedReach == 3

\* moves applied in a row to an input board
MaxSteps == 2

----------------------------------------------------------------------------
(* History: the last move applied and the state it was applied in; the     *)
(* last call of a function and its result.                                 *)

\* no board: nothing applied or called yet
NoBoard == << >>

\* last.intact: the board of the render read the same after executeMove
NoLast == [op |-> "none", by |-> "none", move |-> NoMove, player |-> "none",
           pre |-> NoBoard, preMustJumpFrom |-> NoPos, preWinner |-> "none",
           threw |-> FALSE, intact |-> TRUE]

\* simulateMove not called
NoSim == [threw |-> FALSE, newBoard |-> NoBoard, nextTurn |-> "none",
          nextMustJumpFrom |-> NoPos]

\* no recursive call recorded
NoChild == [newBoard |-> NoBoard, nextDepth |-> 0, nextMaximizing |-> FALSE,
            nextMustJumpFrom |-> NoPos]

\* call.child: the arguments of the recursive call made for call.move;
\* call.scores: the score getAiMove computed for each root move;
\* call.intact: the board passed to simulateMove read the same after it
NoCall == [op |-> "none", pos |-> NoPos, flag |-> FALSE, depth |-> 0,
           player |-> "none", level |-> "none", value |-> 0, moves |-> << >>,
           returns |-> {}, scores |-> << >>, move |-> NoMove, sim |-> NoSim,
           child |-> NoChild, intact |-> TRUE]

----------------------------------------------------------------------------
(* The App component as a state machine.  A handler runs to completion,    *)
(* its state updates are batched into one render, and the AI turn effect   *)
(* runs after a render in which one of its dependencies changed: it clears *)
(* the pending timer and, in AI mode with black to move and no winner,     *)
(* sets isAiThinking and starts a new timer.                               *)

AiToMove(mode, t, w) == mode = "ai" /\ t = "black" /\ w = "none"

Init ==
  /\ board = initializeBoard
  /\ turn = "red"
  /\ selectedPos = NoPos
  /\ winner = "none"
  /\ gameMode = "ai"
  /\ difficulty = "medium"
  /\ isAiThinking = FALSE
  /\ mustJumpFrom = NoPos
  /\ timer = FALSE
  /\ last = NoLast
  /\ moveCount = 0
  /\ changes = 0
  /\ call = NoCall

\* the render after executeMove(move) and the effect that follows it;
\* thinking: the value the handler itself leaves in isAiThinking
Commit(move, by, thinking) ==
  /\ moveCount < MaxMoves
  /\ \E res \in {executeMove(board, turn, move)} :
       /\ ~res.threw
       /\ board' = res.board
       /\ mustJumpFrom' = res.mustJumpFrom
       /\ selectedPos' = res.selectedPos
       /\ turn' = res.turn
       /\ winner' = IF res.winner = "none" THEN winner ELSE res.winner
       /\ timer' = AiToMove(gameMode, turn', winner')
       /\ isAiThinking' = IF timer' THEN TRUE ELSE thinking
  /\ last' = [op |-> "executeMove", by |-> by, move |-> move, player |-> turn,
              pre |-> board, preMustJumpFrom |-> mustJumpFrom,
              preWinner |-> winner, threw |-> FALSE,
              intact |-> (executeMoveInput(board, move) = board)]
  /\ moveCount' = moveCount + 1
  /\ UNCHANGED <<gameMode, difficulty, changes, call>>

\* handleSquareClick on a piece of the player to move: select it;
\* globalJumpAvailable is hasAnyJumps(board, turn)
ClickPiece(row, col, globalJumpAvailable) ==
  /\ winner = "none" /\ ~isAiThinking
  /\ ~(gameMode = "ai" /\ turn = "black")
  /\ board[row][col].player = turn
  /\ mustJumpFrom = NoPos
  /\ globalJumpAvailable => SomeJump(getValidMoves(board, Pos(row, col), FALSE))
  /\ selectedPos' = Pos(row, col)
  /\ UNCHANGED <<board, turn, winner, gameMode, difficulty, isAiThinking,
                 mustJumpFrom, timer, last, moveCount, changes, call>>

\* handleSquareClick on an empty square with a piece selected: move there;
\* memo is the validMoves memo of the render
ClickTarget(row, col, memo) ==
  /\ winner = "none" /\ ~isAiThinking
  /\ ~(gameMode = "ai" /\ turn = "black")
  /\ board[row][col].player # turn
  /\ board[row][col] = None
  /\ selectedPos # NoPos
  /\ LET move == FindMove(memo, row, col)
     IN  /\ move # NoMove
         /\ Commit(move, "human", isAiThinking)

\* the 600 ms timer of the AI turn effect fires
AiTimer ==
  /\ timer
  /\ moveCount < MaxMoves
  /\ \E move \in getAiMove(board, "black", difficulty, mustJumpFrom) :
       IF move # NoMove
         THEN Commit(move, "ai", FALSE)
         ELSE /\ winner' = "red"
              /\ isAiThinking' = FALSE
              /\ timer' = FALSE
              /\ UNCHANGED <<board, turn, selectedPos, gameMode, difficulty,
                             mustJumpFrom, last, moveCount, changes, call>>

\* a faulty resetGame: setTurn('red') left out
resetGameKeepsTurn ==
  /\ board' = initializeBoard
  /\ winner' = "none"
  /\ selectedPos' = NoPos
  /\ mustJumpFrom' = NoPos
  /\ timer' = AiToMove(gameMode, turn, "none")
  /\ isAiThinking' = IF timer' THEN TRUE ELSE isAiThinking
  /\ last' = NoLast
  /\ moveCount' = 0
  /\ UNCHANGED <<turn, gameMode, difficulty, changes, call>>

resetGame ==
  /\ board' = initializeBoard
  /\ turn' = "red"
  /\ winner' = "none"
  /\ selectedPos' = NoPos
  /\ mustJumpFrom' = NoPos
  /\ timer' = FALSE
  /\ last' = NoLast
  /\ moveCount' = 0
  /\ UNCHANGED <<gameMode, difficulty, isAiThinking, changes, call>>

\* the PvP / vs AI buttons of the menu
SetGameMode(m) ==
  /\ m # gameMode
  /\ changes < MaxSettings
  /\ changes' = changes + 1
  /\ gameMode' = m
  /\ timer' = AiToMove(m, turn, winner)
  /\ isAiThinking' = IF AiToMove(m, turn, winner) THEN TRUE ELSE isAiThinking
  /\ UNCHANGED <<board, turn, selectedPos, winner, difficulty, mustJumpFrom,
                 last, moveCount, call>>

\* the difficulty buttons of the menu
SetDifficulty(d) ==
  /\ d # difficulty
  /\ changes < MaxSettings
  /\ changes' = changes + 1
  /\ difficulty' = d
  /\ timer' = AiToMove(gameMode, turn, winner)
  /\ isAiThinking' = IF AiToMove(gameMode, turn, winner) THEN TRUE ELSE isAiThinking
  /\ UNCHANGED <<board, turn, selectedPos, winner, gameMode, mustJumpFrom,
                 last, moveCount, call>>

Next ==
  \/ \E globalJumpAvailable \in {hasAnyJumps(board, turn)} :
       \E row \in Idx, col \in Idx : ClickPiece(row, col, globalJumpAvailable)
  \/ \E memo \in {validMoves(board, selectedPos, mustJumpFrom, turn,
                              isAiThinking, gameMode)} :
       \E row \in Idx, col \in Idx : ClickTarget(row, col, memo)
  \/ AiTimer
  \/ resetGame
  \/ \E m \in {"pvp", "ai"} : SetGameMode(m)
  \/ \E d \in {"easy", "medium", "hard"} : SetDifficulty(d)

Spec == Init /\ [][Next]_vars

----------------------------------------------------------------------------
(* Input boards of the exported functions *)

Kinds == {Piece(p, k) : p \in Players, k \in BOOLEAN}

SeedSquares ==
  {Pos(r, c) : r \in Idx, c \in 0 .. (SeedCols - 1)} \cap
  {q \in AllPos : (q.row + q.col) % 2 = 1}

Abs(n) == IF n < 0 THEN 0 - n ELSE n

\* the board holding the pieces of a function from squares to pieces
BoardOf(f) ==
  [r \in Idx |-> [c \in Idx |->
     IF Pos(r, c) \in DOMAIN f THEN f[Pos(r, c)] ELSE None]]

\* the sets of at most MaxEnemies squares near a square
EnemySquares(p) ==
  {S \in SUBSET {q \in SeedSquares \ {p} : Abs(q.row - p.row) <= SeedReach} :
      Cardinality(S) <= MaxEnemies}

SeedBoards ==
  UNION {UNION {
     {BoardOf([q \in S \cup {p} |->
                 IF q = p THEN k ELSE Piece(Other(k.player), kings[q])]) :
         kings \in [S -> BOOLEAN]} :
       S \in EnemySquares(p)} :
     p \in SeedSquares, k \in Kinds}

\* the scenario of an attacker at (3,3) facing one enemy piece at (4,4)
ScenarioBoards ==
  {BoardOf([q \in {Pos(3, 3), Pos(4, 4)} |->
              IF q = Pos(3, 3) THEN k ELSE Piece(Other(k.player), e)]) :
      k \in Kinds, e \in BOOLEAN}

\* the point reflection of the board, which exchanges the two directions
Mirror(q) == Pos(BOARD_SIZE - 1 - q.row, BOARD_SIZE - 1 - q.col)

\* a man one jump away from its promotion row: a black man at (5,2) and
\* an enemy piece at (6,3), with or without enemy pieces at (6,5) and
\* (5,6) behind the landing square (7,4); and the same reflected for red
CrownBoards ==
  UNION {
    {BoardOf([q \in {Pos(5, 2), Pos(6, 3)} \cup S |->
                IF q = Pos(5, 2) THEN Piece("black", FALSE)
                ELSE Piece("red", k[q])]),
     BoardOf([q \in {Mirror(p) : p \in {Pos(5, 2), Pos(6, 3)} \cup S} |->
                IF q = Mirror(Pos(5, 2)) THEN Piece("red", FALSE)
                ELSE Piece("black", k[Mirror(q)])])} :
      S \in SUBSET {Pos(6, 5), Pos(5, 6)},
      k \in [{Pos(6, 3), Pos(6, 5), Pos(5, 6)} -> BOOLEAN]}

InitIn ==
  /\ board \in SeedBoards \cup ScenarioBoards \cup CrownBoards
  /\ turn \in Players
  /\ selectedPos = NoPos
  /\ winner = "none"
  /\ gameMode = "pvp"
  /\ difficulty = "medium"
  /\ isAiThinking = FALSE
  /\ mustJumpFrom = NoPos
  /\ timer = FALSE
  /\ last = NoLast
  /\ moveCount = 0
  /\ changes = 0
  /\ call = NoCall

Occupied(b) == {q \in AllPos : b[q.row][q.col] # None}

----------------------------------------------------------------------------
(* The App component from the initial position or from a position of a     *)
(* game in progress: both players have a piece, the player to move has a   *)
(* move, no man stands on its promotion row, a capture that continues or a *)
(* blockade is ahead, and the AI turn effect has run.                      *)

NoManToPromote(b) ==
  \A r \in Idx, c \in Idx : b[r][c] # None => ~Promotes(b[r][c], [to |-> Pos(r, c)])

\* a piece on b has a jump after which it can jump again
ChainAhead(b) ==
  \E q \in Occupied(b) :
     \E m \in MoveSet(getValidMoves(b, q, TRUE)) :
        simulateMove(b, m, b[q.row][q.col].player).nextMustJumpFrom # NoPos

\* a king in its corner one move away from being blocked: a black king at
\* (7,0) with red men at (6,1) and (6,3), and the same reflected for red
BlockadeBoards ==
  {BoardOf([q \in {Pos(7, 0), Pos(6, 1), Pos(6, 3)} |->
              IF q = Pos(7, 0) THEN Piece("black", TRUE)
              ELSE Piece("red", FALSE)]),
   BoardOf([q \in {Mirror(Pos(7, 0)), Mirror(Pos(6, 1)), Mirror(Pos(6, 3))} |->
              IF q = Mirror(Pos(7, 0)) THEN Piece("red", TRUE)
              ELSE Piece("black", FALSE)])}

MidGameBoards ==
  {b \in SeedBoards :
      /\ \A p \in Players : \E q \in Occupied(b) : b[q.row][q.col].player = p
      /\ NoManToPromote(b)
      /\ ChainAhead(b)}
  \cup BlockadeBoards

InitMid ==
  /\ board \in MidGameBoards
  /\ turn \in Players
  /\ checkWinCondition(board, turn) = "none"
  /\ selectedPos = NoPos
  /\ winner = "none"
  /\ gameMode = "ai"
  /\ difficulty = "medium"
  /\ timer = AiToMove("ai", turn, "none")
  /\ isAiThinking = timer
  /\ mustJumpFrom = NoPos
  /\ last = NoLast
  /\ moveCount = 0
  /\ changes = 0
  /\ call = NoCall

PlaySpec == (Init \/ InitMid) /\ [][Next]_vars

----------------------------------------------------------------------------
(* The move generator applied to the input boards *)

\* one call on each input, its arguments and result kept in call
Query(op, pos, flag, moves) ==
  /\ call = NoCall
  /\ call' = [NoCall EXCEPT !.op = op, !.pos = pos, !.flag = flag,
                            !.player = turn, !.moves = moves]
  /\ UNCHANGED <<board, turn, selectedPos, winner, gameMode, difficulty,
                 isAiThinking, mustJumpFrom, timer, last, moveCount, changes>>

\* getValidMoves(board, pos, mustJump) on a piece or on an empty square
CallGetValidMoves(pos, mustJump) ==
  Query("getValidMoves", pos, mustJump, getValidMoves(board, pos, mustJump))

\* the validMoves memo with pos selected
CallValidMoves(pos) ==
  Query("validMoves", pos, FALSE,
        validMoves(board, pos, NoPos, turn, FALSE, "pvp"))

\* possibleMoves of getAiMove for the player to move
CallAiMoves ==
  Query("possibleMoves", NoPos, FALSE, AiMoves(board, turn, NoPos))

GenNext ==
  \/ \E pos \in Occupied(board) \cup {Pos(0, 0)}, mustJump \in BOOLEAN :
       CallGetValidMoves(pos, mustJump)
  \/ \E pos \in Occupied(board) : board[pos.row][pos.col].player = turn
                                   /\ CallValidMoves(pos)
  \/ CallAiMoves

GenSpec == InitIn /\ [][GenNext]_vars

----------------------------------------------------------------------------
(* The move applicators applied to the input boards: executeMove commits   *)
(* the move, simulateMove is called on the same board with the same move   *)
(* and its result kept in call.                                            *)

\* the record of simulateMove(board, move, turn); call.moves is the list
\* getValidMoves gives the from square of the move
SimCall(op, move) ==
  [NoCall EXCEPT !.op = op, !.player = turn, !.move = move,
                 !.pos = move.from,
                 !.moves = getValidMoves(board, move.from, FALSE),
                 !.sim = simulateMove(board, move, turn),
                 !.intact = (simulateMoveInput(board, move) = board)]

\* the record of executeMove(move) in a render with this board and turn
ExecLast(op, move) ==
  [op |-> op, by |-> "call", move |-> move, player |-> turn, pre |-> board,
   preMustJumpFrom |-> mustJumpFrom, preWinner |-> winner,
   threw |-> executeMove(board, turn, move).threw,
   intact |-> (executeMoveInput(board, move) = board)]

\* both applicators on a move, well formed or not; the state after it is
\* the one executeMove sets, unchanged when it throws; nothing is applied
\* after a malformed move
Apply(op, move) ==
  /\ moveCount < MaxSteps
  /\ last.op \in {"none", "move"}
  /\ moveCount' = moveCount + 1
  /\ call' = SimCall(op, move)
  /\ last' = ExecLast(op, move)
  /\ \E res \in {executeMove(board, turn, move)} :
       IF res.threw
         THEN UNCHANGED <<board, turn, selectedPos, winner, mustJumpFrom>>
         ELSE /\ board' = res.board
              /\ turn' = res.turn
              /\ selectedPos' = res.selectedPos
              /\ mustJumpFrom' = res.mustJumpFrom
              /\ winner' = IF res.winner = "none" THEN winner ELSE res.winner
  /\ UNCHANGED <<gameMode, difficulty, isAiThinking, timer, changes>>

\* the moves getValidMoves gives the pieces of the player to move
MovesOfTurn ==
  UNION {MoveSet(getValidMoves(board, pos, FALSE)) :
           pos \in {q \in Occupied(board) : board[q.row][q.col].player = turn}}

\* a move produced by getValidMoves for a piece of the player to move
ApplyMove == \E move \in MovesOfTurn : Apply("move", move)

\* on an input board, a move whose from square is empty: a generated move
\* reversed
ApplyFromEmpty ==
  /\ last.op = "none"
  /\ \E m \in MovesOfTurn :
        Apply("fromEmpty", [m EXCEPT !.from = m.to, !.to = m.from])

\* on an input board, a jump whose jumpedPiece is absent
ApplyNoJumped ==
  /\ last.op = "none"
  /\ \E m \in {j \in MovesOfTurn : j.isJump} :
        Apply("noJumped", [m EXCEPT !.jumpedPiece = NoPos])

MoveNext == ApplyMove \/ ApplyFromEmpty \/ ApplyNoJumped

MoveSpec == InitIn /\ [][MoveNext]_vars

----------------------------------------------------------------------------
(* The search applied to the input boards *)

\* search depths of the direct calls of minimax
MaxDepth == 2

\* the forced squares a call can be given: none, or a piece of the mover
ForcedSquares(player) ==
  {NoPos} \cup {q \in Occupied(board) : board[q.row][q.col].player = player}

\* minimax for root player turn with the full window
CallMinimax(depth, maximizingPlayer, mjf) ==
  /\ call = NoCall
  /\ call' = [NoCall EXCEPT !.op = "minimax", !.depth = depth,
                            !.flag = maximizingPlayer, !.player = turn,
                            !.pos = mjf,
                            !.value = minimax(board, depth, 0 - Infinity, Infinity,
                                              maximizingPlayer, turn, mjf)]
  /\ UNCHANGED <<board, turn, selectedPos, winner, gameMode, difficulty,
                 isAiThinking, mustJumpFrom, timer, last, moveCount, changes>>

\* getAiMove for the player to move: every value it can return
CallGetAiMove(d, mjf) ==
  /\ call = NoCall
  /\ \E run \in {AiSearch(board, turn, d, mjf)} :
       call' = [NoCall EXCEPT !.op = "getAiMove", !.level = d, !.player = turn,
                              !.pos = mjf, !.returns = run.returns,
                              !.scores = run.scores]
  /\ UNCHANGED <<board, turn, selectedPos, winner, gameMode, difficulty,
                 isAiThinking, mustJumpFrom, timer, last, moveCount, changes>>

\* evaluateBoard from the perspective of a player
CallEvaluateBoard(player) ==
  /\ call = NoCall
  /\ call' = [NoCall EXCEPT !.op = "evaluateBoard", !.player = player,
                            !.value = evaluateBoard(board, player)]
  /\ UNCHANGED <<board, turn, selectedPos, winner, gameMode, difficulty,
                 isAiThinking, mustJumpFrom, timer, last, moveCount, changes>>

SearchNext ==
  \/ \E depth \in 0 .. MaxDepth, maximizingPlayer \in BOOLEAN :
       \E mjf \in ForcedSquares(IF maximizingPlayer THEN turn ELSE Other(turn)) :
          CallMinimax(depth, maximizingPlayer, mjf)
  \/ \E d \in {"easy", "medium", "hard"}, mjf \in ForcedSquares(turn) :
       CallGetAiMove(d, mjf)

SearchSpec == InitIn /\ [][SearchNext]_vars

----------------------------------------------------------------------------
(* The nodes of the search on the input boards: the static evaluation, the *)
(* value of a node, and the recursive call made for each move of a node.   *)

\* the recursive call of a node of minimax for one of its moves; the node
\* has root player turn, maximizing or not, and forced square mjf
CallNodeChild(depth, maximizingPlayer, mjf) ==
  /\ call = NoCall
  /\ \E move \in MoveSet(MinimaxMoves(board, maximizingPlayer, turn, mjf)) :
       call' = [NoCall EXCEPT
                  !.op = "nodeChild", !.depth = depth,
                  !.flag = maximizingPlayer, !.player = turn, !.pos = mjf,
                  !.move = move,
                  !.child = IF maximizingPlayer
                              THEN MaxChild(board, depth, turn, move)
                              ELSE MinChild(board, depth, turn, move)]
  /\ UNCHANGED <<board, turn, selectedPos, winner, gameMode, difficulty,
                 isAiThinking, mustJumpFrom, timer, last, moveCount, changes>>

\* the minimax call of the loop of getAiMove for one of its moves
CallRootChild(d, mjf) ==
  /\ call = NoCall
  /\ \E move \in MoveSet(AiMoves(board, turn, mjf)) :
       call' = [NoCall EXCEPT
                  !.op = "rootChild", !.depth = SearchDepth(d), !.level = d,
                  !.flag = TRUE, !.player = turn, !.pos = mjf, !.move = move,
                  !.child = RootChild(board, SearchDepth(d), turn, move)]
  /\ UNCHANGED <<board, turn, selectedPos, winner, gameMode, difficulty,
                 isAiThinking, mustJumpFrom, timer, last, moveCount, changes>>

NodeNext ==
  \/ \E player \in Players : CallEvaluateBoard(player)
  \/ \E depth \in 0 .. MaxDepth, maximizingPlayer \in BOOLEAN :
       \E mjf \in ForcedSquares(IF maximizingPlayer THEN turn ELSE Other(turn)) :
          CallMinimax(depth, maximizingPlayer, mjf)
  \/ \E depth \in 1 .. MaxDepth, maximizingPlayer \in BOOLEAN :
       \E mjf \in ForcedSquares(IF maximizingPlayer THEN turn ELSE Other(turn)) :
          CallNodeChild(depth, maximizingPlayer, mjf)
  \/ \E d \in {"medium", "hard"}, mjf \in ForcedSquares(turn) :
       CallRootChild(d, mjf)

NodeSpec == InitIn /\ [][NodeNext]_vars

----------------------------------------------------------------------------
(* Reference definitions of the properties: what the rules of the game     *)
(* call a capture, written without the move generator.                     *)

\* the piece on pos can capture: a diagonal neighbour in a direction it may
\* move in holds an enemy piece and the square behind it is on the board
\* and empty
HasCapture(b, pos) ==
  LET piece == b[pos.row][pos.col]
  IN  /\ piece # None
      /\ \E dr \in {-1, 1}, dc \in {-1, 1} :
            /\ \/ piece.isKing
               \/ (piece.player = "red" /\ dr = -1)
               \/ (piece.player = "black" /\ dr = 1)
            /\ (pos.row + 2 * dr) \in Idx
            /\ (pos.col + 2 * dc) \in Idx
            /\ b[pos.row + dr][pos.col + dc].player = Other(piece.player)
            /\ b[pos.row + 2 * dr][pos.col + 2 * dc] = None

\* some piece of the player can capture
AnyCapture(b, player) ==
  \E q \in AllPos : b[q.row][q.col].player = player /\ HasCapture(b, q)

AllJumps(moves) == \A i \in 1 .. Len(moves) : moves[i].isJump

NoJumps(moves) == \A i \in 1 .. Len(moves) : ~moves[i].isJump

\* the capture continues after a move that led to board b
Continues(b, move) == move.isJump /\ HasCapture(b, move.to)

\* the piece a move of the history moved, as it stood before the move
Mover == last.pre[last.move.from.row][last.move.from.col]

\* the moved piece reached its promotion row
Crowned ==
  \/ (Mover.player = "red" /\ last.move.to.row = 0)
  \/ (Mover.player = "black" /\ last.move.to.row = 7)

\* the jump of the scenario: from (3,3) over (4,4) to (5,5)
ScenarioJump ==
  [from |-> Pos(3, 3), to |-> Pos(5, 5), isJump |-> TRUE,
   jumpedPiece |-> Pos(4, 4)]

\* a move generated for the attacker of a scenario board was applied
ScenarioMove ==
  /\ last.op = "move"
  /\ last.pre \in ScenarioBoards
  /\ last.move.from = Pos(3, 3)

----------------------------------------------------------------------------
(* C1 *)

\* C1, as stated: whenever hasAnyJumps(board, player) holds, getValidMoves
\* (board, square) for a square holding a piece of that player returns only
\* moves with isJump = true.  Refuted: with the default mustJump = false the
\* simple moves of the piece are returned after its jumps.
C1_GetValidMovesOnlyJumps ==
  (/\ call.op = "getValidMoves"
   /\ ~call.flag
   /\ board[call.pos.row][call.pos.col] # None
   /\ hasAnyJumps(board, board[call.pos.row][call.pos.col].player))
  => AllJumps(call.moves)

\* C1, amended: whenever hasAnyJumps(board, player) holds, the move lists
\* the callers build for that player (the validMoves memo of a selected
\* piece, possibleMoves of getAiMove) hold only moves with isJump = true;
\* getValidMoves(board, square) itself returns a jump exactly when the piece
\* on the square can capture.
C1_CallersFilterToJumps ==
  /\ (call.op \in {"validMoves", "possibleMoves"}
        /\ hasAnyJumps(board, call.player))
     => AllJumps(call.moves)
  /\ (call.op = "getValidMoves" /\ ~call.flag)
     => (SomeJump(call.moves) <=> HasCapture(board, call.pos))

\* possibleMoves built for a player who can capture and who has a piece
\* with a simple move
C1_Witness ==
  /\ call.op = "possibleMoves"
  /\ hasAnyJumps(board, call.player)
  /\ Len(call.moves) > 0
  /\ \E q \in Occupied(board) :
        /\ board[q.row][q.col].player = call.player
        /\ Len(SlideMoves(board, q)) > 0

----------------------------------------------------------------------------
(* C2 *)

\* C2: over any sequence of clicks and AI moves, in PvP and in AI mode,
\* whenever a move that is not a jump is applied to the board, the moving
\* player had no capture with any piece (hasAnyJumps(board, turn) was
\* false) and mustJumpFrom was null.
C2_NonJumpOnlyWithoutCapture ==
  (last.op = "executeMove" /\ ~last.move.isJump)
  => /\ ~hasAnyJumps(last.pre, last.player)
     /\ ~AnyCapture(last.pre, last.player)
     /\ last.preMustJumpFrom = NoPos

\* a simple move applied by the AI
C2_Witness ==
  /\ last.op = "executeMove"
  /\ ~last.move.isJump
  /\ last.by = "ai"
  /\ last.preMustJumpFrom = NoPos

----------------------------------------------------------------------------
(* C3 *)

\* C3: applying a move with simulateMove or executeMove leaves the landing
\* square as the forced square, with the same player to move, if and only
\* if the move was a jump and the moved piece has a further jump from the
\* landing square on the resulting board; otherwise the forced square is
\* null and the turn passes to the opponent.
C3_ContinuationIffFurtherJump ==
  last.op = "move" =>
    /\ ~call.sim.threw
    /\ ~last.threw
    /\ call.sim.nextMustJumpFrom =
         (IF Continues(call.sim.newBoard, last.move) THEN last.move.to ELSE NoPos)
    /\ call.sim.nextTurn =
         (IF Continues(call.sim.newBoard, last.move)
            THEN last.player ELSE Other(last.player))
    /\ mustJumpFrom = (IF Continues(board, last.move) THEN last.move.to ELSE NoPos)
    /\ turn = (IF Continues(board, last.move)
                 THEN last.player ELSE Other(last.player))

\* a jump after which the same piece has to jump again
C3_Witness ==
  /\ last.op = "move"
  /\ last.move.isJump
  /\ mustJumpFrom = last.move.to
  /\ call.sim.nextMustJumpFrom = last.move.to
  /\ turn = last.player
  /\ call.sim.nextTurn = last.player

----------------------------------------------------------------------------
(* C4 *)

\* the moved piece stands on the landing square of board b with its owner,
\* a king exactly if it was one or reached its promotion row, and every
\* other piece of b is as it was before the move
PromotedRight(b) ==
  LET to == last.move.to
  IN  /\ b[to.row][to.col].player = Mover.player
      /\ b[to.row][to.col].isKing = (Mover.isKing \/ Crowned)
      /\ \A q \in AllPos \ {to} :
            b[q.row][q.col] # None => b[q.row][q.col] = last.pre[q.row][q.col]

\* C4: after an applied move a red man landing on row 0 and a black man
\* landing on row 7 is a king, a man landing on another row stays a man,
\* and a king stays a king: the moved king and every piece left on the
\* board keep their kind, move after move.
C4_PromotionOnFarRow ==
  last.op = "move" => PromotedRight(board) /\ PromotedRight(call.sim.newBoard)

\* a man was crowned by the move
C4_Witness ==
  /\ last.op = "move"
  /\ ~Mover.isKing
  /\ board[last.move.to.row][last.move.to.col].isKing
  /\ call.sim.newBoard[last.move.to.row][last.move.to.col].isKing

----------------------------------------------------------------------------
(* C5 *)

\* C5: simulateMove and executeMove never mutate the board they are given:
\* every cell of it reads the same before and after the call, also when the
\* move captures or promotes, and when the call fails.
C5_InputBoardIntact ==
  last.op # "none" => last.intact /\ call.intact

\* a man captured and was crowned in one move
C5_Witness ==
  /\ last.op = "move"
  /\ last.move.isJump
  /\ ~Mover.isKing
  /\ board[last.move.to.row][last.move.to.col].isKing
  /\ last.intact
  /\ call.intact

----------------------------------------------------------------------------
(* C6 *)

\* the side to move at the node of the last minimax call has no move
NoMovesAtNode ==
  /\ call.op = "minimax"
  /\ Len(MinimaxMoves(board, call.flag, call.player, call.pos)) = 0

\* the score of a lost node: -10000 at a maximizing node, 10000 otherwise
Sentinel == IF call.flag THEN -10000 ELSE 10000

\* C6, as stated: when the side to move at a node has no legal move,
\* minimax returns the sentinel at every depth >= 0, depth 0 included.
\* Refuted: at depth 0 the static evaluation is returned before the moves
\* are looked at.
C6_SentinelAtAnyDepth ==
  NoMovesAtNode => call.value = Sentinel

\* C6, amended: when the side to move at a node has no legal move, minimax
\* called with depth >= 1 returns -10000 at a maximizing node and 10000 at
\* a minimizing node; called with depth 0 it returns evaluateBoard(board,
\* player), which is never a sentinel.
C6_SentinelAboveDepthZero ==
  NoMovesAtNode =>
    IF call.depth >= 1
      THEN call.value = Sentinel
      ELSE /\ call.value = evaluateBoard(board, call.player)
           /\ call.value > -10000
           /\ call.value < 10000

\* a minimizing node above depth 0 where the opponent, with pieces on the
\* board, has no move
C6_Witness ==
  /\ NoMovesAtNode
  /\ call.depth >= 1
  /\ ~call.flag
  /\ call.pos = NoPos
  /\ \E q \in Occupied(board) : board[q.row][q.col].player = Other(call.player)
  /\ call.value = 10000

----------------------------------------------------------------------------
(* C7 *)

\* the root moves whose score no other root move exceeds
BestScored(scores) ==
  {m \in DOMAIN scores : \A n \in DOMAIN scores : scores[m] >= scores[n]}

\* C7: on medium and hard, whatever order the shuffle leaves, getAiMove
\* returns a legal move whose search score is maximal among the legal
\* moves, and the moves it can return over all orders are exactly the legal
\* moves with that maximal score.
C7_ReturnsExactlyTheBestMoves ==
  (/\ call.op = "getAiMove"
   /\ call.level \in {"medium", "hard"}
   /\ call.returns # {NoMove})
  => /\ DOMAIN call.scores = MoveSet(AiMoves(board, call.player, call.pos))
     /\ call.returns = BestScored(call.scores)
     /\ call.returns # {}

\* a hard search with two best moves and a worse one
C7_Witness ==
  /\ call.op = "getAiMove"
  /\ call.level = "hard"
  /\ Cardinality(call.returns) >= 2
  /\ Cardinality(DOMAIN call.scores) > Cardinality(call.returns)

----------------------------------------------------------------------------
(* C8 *)

\* the attacker of the scenario can move towards row 7
AttackerFacesEnemy == Mover.isKing \/ Mover.player = "black"

\* the captured piece is gone from board b and the mover stands on (5,5)
ScenarioCaptured(b) ==
  /\ b[4][4] = None
  /\ b[3][3] = None
  /\ b[5][5] = Mover

\* C8, as stated: on a board holding only an attacker at (3,3) and one
\* enemy piece at (4,4), getValidMoves at (3,3) returns exactly one move,
\* the jump to (5,5) over (4,4), and applying it removes the piece at (4,4)
\* and puts the mover on (5,5).  Read for the attackers that can jump, a
\* black man or a king.  Refuted: the simple moves of the attacker are
\* returned as well.
C8_ExactlyTheJump ==
  (ScenarioMove /\ AttackerFacesEnemy) =>
    /\ call.moves = <<ScenarioJump>>
    /\ ScenarioCaptured(board)
    /\ ScenarioCaptured(call.sim.newBoard)

\* C8, amended: on such a board with a black man or a king at (3,3),
\* getValidMoves at (3,3) returns exactly one jump, the jump to (5,5) over
\* (4,4), before the simple moves of the attacker, and with mustJump = true
\* that jump alone; applying the jump removes the piece at (4,4) and puts
\* the mover on (5,5).  A red man at (3,3) has no jump.
C8_OneJumpAmongTheMoves ==
  ScenarioMove =>
    IF AttackerFacesEnemy
      THEN /\ FilterJumps(call.moves) = <<ScenarioJump>>
           /\ call.moves[1] = ScenarioJump
           /\ Len(call.moves) > 1
           /\ getValidMoves(last.pre, Pos(3, 3), TRUE) = <<ScenarioJump>>
           /\ last.move = ScenarioJump =>
                ScenarioCaptured(board) /\ ScenarioCaptured(call.sim.newBoard)
      ELSE NoJumps(call.moves)

\* the jump of the scenario was applied
C8_Witness ==
  /\ ScenarioMove
  /\ last.move = ScenarioJump
  /\ board[5][5] # None
  /\ board[4][4] = None

----------------------------------------------------------------------------
(* C9 *)

\* C9, as stated: getValidMoves(board, square, mustJump = true) returns
\* only jumps, and nothing when the piece on the square has no capture.
\* Refuted: a piece without a capture gets its simple moves.
C9_MustJumpOnlyJumps ==
  (call.op = "getValidMoves" /\ call.flag)
  => /\ AllJumps(call.moves)
     /\ ~HasCapture(board, call.pos) => call.moves = << >>

\* C9, amended: getValidMoves(board, square, mustJump = true) returns only
\* jumps, at least one, when the piece on the square has a capture; when it
\* has none it returns the simple moves of the piece, the list returned
\* with mustJump = false, which callers remove with filter(m => m.isJump).
C9_MustJumpOnlyJumpsWhenCapture ==
  (call.op = "getValidMoves" /\ call.flag)
  => IF HasCapture(board, call.pos)
       THEN Len(call.moves) > 0 /\ AllJumps(call.moves)
       ELSE /\ NoJumps(call.moves)
            /\ call.moves = getValidMoves(board, call.pos, FALSE)
            /\ FilterJumps(call.moves) = << >>

\* mustJump = true on a piece with a capture and with a simple move
C9_Witness ==
  /\ call.op = "getValidMoves"
  /\ call.flag
  /\ HasCapture(board, call.pos)
  /\ Len(call.moves) > 0
  /\ Len(SlideMoves(board, call.pos)) > 0

----------------------------------------------------------------------------
(* C10 *)

\* the square between the two ends of a jump
Between(move) ==
  Pos((move.from.row + move.to.row) \div 2, (move.from.col + move.to.col) \div 2)

\* on board b the piece moved went from its square to the landing square
\* and the piece jumped over is still there
MovedWithoutCapture(b) ==
  LET mid == Between(last.move)
  IN  /\ b[last.move.from.row][last.move.from.col] = None
      /\ b[last.move.to.row][last.move.to.col].player = Mover.player
      /\ b[mid.row][mid.col] # None
      /\ b[mid.row][mid.col] = last.pre[mid.row][mid.col]

----------------------------------------------------------------------------
(* C11 *)

\* the squares with an even sum of row and column
LightSquares == {q \in AllPos : (q.row + q.col) % 2 = 0}

\* C11: in every board reached from initializeBoard() by moves of the
\* human and of the AI, simple moves and jumps, only squares with
\* (row + col) odd are occupied; every square with (row + col) even is
\* empty.
C11_OnlyDarkSquaresOccupied ==
  \A q \in LightSquares : board[q.row][q.col] = None

\* a jump was applied to a board reached from the initial one
C11_Witness ==
  /\ last.op = "executeMove"
  /\ last.by = "human"
  /\ last.move.isJump
  /\ Cardinality(Occupied(last.pre)) > 20
  /\ \A q \in LightSquares : board[q.row][q.col] = None

----------------------------------------------------------------------------
(* C12 *)

\* the squares of board b holding a man of player p
MenOf(b, p) == {q \in AllPos : b[q.row][q.col] = Piece(p, FALSE)}

\* the squares with an odd sum of row and column in rows lo .. hi
DarkSquares(lo, hi) ==
  {q \in AllPos : q.row >= lo /\ q.row <= hi /\ (q.row + q.col) % 2 = 1}

\* the simple move of the piece on from to the square to
SlideTo(from, to) ==
  [from |-> from, to |-> to, isJump |-> FALSE, jumpedPiece |-> NoPos]

\* C12: initializeBoard() places exactly 12 men per side, black on the
\* odd-sum squares of rows 0-2 and red on those of rows 5-7, no kings and
\* nothing else; in that position hasAnyJumps is false for both players
\* and getValidMoves gives a row-2 piece a simple move to each diagonally
\* adjacent square of row 3.
C12_InitialPosition ==
  moveCount = 0 =>
    /\ MenOf(board, "black") = DarkSquares(0, 2)
    /\ MenOf(board, "red") = DarkSquares(5, 7)
    /\ Cardinality(MenOf(board, "black")) = 12
    /\ Cardinality(MenOf(board, "red")) = 12
    /\ Occupied(board) = DarkSquares(0, 2) \cup DarkSquares(5, 7)
    /\ ~hasAnyJumps(board, "red")
    /\ ~hasAnyJumps(board, "black")
    /\ ~AnyCapture(board, "red")
    /\ ~AnyCapture(board, "black")
    /\ \A q \in DarkSquares(2, 2), dc \in {-1, 1} :
          (q.col + dc) \in Idx =>
             /\ board[3][q.col + dc] = None
             /\ SlideTo(q, Pos(3, q.col + dc))
                  \in MoveSet(getValidMoves(board, q, FALSE))

\* the board resetGame set with initializeBoard() while the AI was thinking
C12_Witness ==
  /\ moveCount = 0
  /\ isAiThinking
  /\ turn = "red"
  /\ board[2][1] = Piece("black", FALSE)

----------------------------------------------------------------------------
(* C13 *)

DiagonalSteps == {<<-1, -1>>, <<-1, 1>>, <<1, -1>>, <<1, 1>>}

\* the piece on q may move in the row direction dr
MayGo(b, q, dr) ==
  \/ b[q.row][q.col].isKing
  \/ (b[q.row][q.col].player = "red" /\ dr = -1)
  \/ (b[q.row][q.col].player = "black" /\ dr = 1)

\* the captures of the piece on q, by the rules
RuleJumps(b, q) ==
  {[from |-> q, to |-> Pos(q.row + 2 * d[1], q.col + 2 * d[2]), isJump |-> TRUE,
    jumpedPiece |-> Pos(q.row + d[1], q.col + d[2])] :
     d \in {e \in DiagonalSteps :
              /\ b[q.row][q.col] # None
              /\ MayGo(b, q, e[1])
              /\ (q.row + 2 * e[1]) \in Idx /\ (q.col + 2 * e[2]) \in Idx
              /\ b[q.row + e[1]][q.col + e[2]].player = Other(b[q.row][q.col].player)
              /\ b[q.row + 2 * e[1]][q.col + 2 * e[2]] = None}}

\* the simple moves of the piece on q, by the rules
RuleSlides(b, q) ==
  {SlideTo(q, Pos(q.row + d[1], q.col + d[2])) :
     d \in {e \in DiagonalSteps :
              /\ b[q.row][q.col] # None
              /\ MayGo(b, q, e[1])
              /\ (q.row + e[1]) \in Idx /\ (q.col + e[2]) \in Idx
              /\ b[q.row + e[1]][q.col + e[2]] = None}}

\* the squares of the pieces of a player
SquaresOf(b, player) == {q \in AllPos : b[q.row][q.col].player = player}

\* the legal moves of a player: the captures from the forced square when
\* there is one, else the captures of all pieces when there is any, else
\* the simple moves of all pieces
LegalMoves(b, player, mjf) ==
  IF mjf # NoPos THEN RuleJumps(b, mjf)
  ELSE LET jumps == UNION {RuleJumps(b, q) : q \in SquaresOf(b, player)}
       IN  IF jumps # {} THEN jumps
           ELSE UNION {RuleSlides(b, q) : q \in SquaresOf(b, player)}

\* C13: getAiMove returns null if and only if the legal-move set of the
\* player is empty (the jumps from mustJumpFrom when it is set, otherwise
\* the moves of the player's pieces, filtered to jumps when hasAnyJumps is
\* true); when the set is not empty the returned move is a member of it,
\* for easy, medium and hard.
C13_NullIffNoLegalMove ==
  call.op = "getAiMove" =>
    /\ (NoMove \in call.returns) <=> (LegalMoves(board, call.player, call.pos) = {})
    /\ call.returns # {}
    /\ LegalMoves(board, call.player, call.pos) # {}
         => call.returns \subseteq LegalMoves(board, call.player, call.pos)
    /\ LegalMoves(board, call.player, call.pos) = {} => call.returns = {NoMove}

\* null returned on hard for a player with a piece, no forced square
C13_Witness ==
  /\ call.op = "getAiMove"
  /\ call.level = "hard"
  /\ call.pos = NoPos
  /\ SquaresOf(board, call.player) # {}
  /\ call.returns = {NoMove}

----------------------------------------------------------------------------
(* C14 *)

\* C14: the static evaluation is antisymmetric in the perspective player:
\* for every board evaluateBoard(board, 'red') = -evaluateBoard(board,
\* 'black').
C14_EvaluationAntisymmetric ==
  call.op = "evaluateBoard" =>
    /\ call.value = 0 - evaluateBoard(board, Other(call.player))
    /\ evaluateBoard(board, "red") + evaluateBoard(board, "black") = 0

\* red's evaluation of a board with a red piece on its back row, not zero
C14_Witness ==
  /\ call.op = "evaluateBoard"
  /\ call.player = "red"
  /\ call.value # 0
  /\ \E c \in Idx : board[7][c].player = "red"

----------------------------------------------------------------------------
(* C15 *)

\* a recursive call of the search was recorded
ChildRecorded == call.op \in {"nodeChild", "rootChild"}

\* the capture chain goes on after the move of the recorded call
ChainGoesOn == Continues(call.child.newBoard, call.move)

\* C15: in minimax and in the loop of getAiMove, after simulating a move,
\* if the capture chain continues for the side that moved the recursive
\* call gets the same depth, the same maximizing flag and the landing
\* square as forced square; otherwise it gets depth - 1, the flipped
\* maximizing flag and no forced square; on maximizing and on minimizing
\* nodes alike.
C15_ChildCallArguments ==
  ChildRecorded =>
    /\ call.child.nextDepth = (IF ChainGoesOn THEN call.depth ELSE call.depth - 1)
    /\ call.child.nextMaximizing = (IF ChainGoesOn THEN call.flag ELSE ~call.flag)
    /\ call.child.nextMustJumpFrom = (IF ChainGoesOn THEN call.move.to ELSE NoPos)

\* a jump of the opponent at a minimizing node after which the chain goes on
C15_Witness ==
  /\ call.op = "nodeChild"
  /\ ~call.flag
  /\ call.move.isJump
  /\ ChainGoesOn
  /\ call.child.nextDepth = call.depth
  /\ ~call.child.nextMaximizing
  /\ call.child.nextMustJumpFrom = call.move.to

----------------------------------------------------------------------------
(* C18 *)

\* the number of pieces on a board
Pieces(b) == Cardinality(Occupied(b))

\* C18: minimax terminates for every position, depth >= 0 and forced
\* square although chain steps recurse at the same depth: every recursive
\* call, of a node (made at depth >= 1) and of the loop of getAiMove,
\* either has the depth decreased by one, never below 0, or has the same
\* depth and strictly fewer pieces on its board; and every call of minimax
\* returns a value.
C18_MeasureDecreases ==
  /\ ChildRecorded =>
       /\ call.depth >= 1
       /\ call.child.nextDepth >= 0
       /\ \/ call.child.nextDepth = call.depth - 1
          \/ /\ call.child.nextDepth = call.depth
             /\ Pieces(call.child.newBoard) < Pieces(board)
  /\ call.op = "minimax" => call.value \in (0 - Infinity) .. Infinity

\* a recursive call of the loop of getAiMove at the same depth, one piece
\* less on the board
C18_Witness ==
  /\ call.op = "rootChild"
  /\ call.child.nextDepth = call.depth
  /\ Pieces(call.child.newBoard) = Pieces(board) - 1

----------------------------------------------------------------------------
(* C16 *)

\* a man was crowned by the jump of the history
CrownedByJump ==
  /\ last.op = "move"
  /\ last.move.isJump
  /\ ~Mover.isKing
  /\ Crowned

\* from its promotion row the piece of player p on q has a capture back
\* towards its own side on board b
BackwardCapture(b, q, p) ==
  LET dr == IF p = "black" THEN -1 ELSE 1
  IN  \E dc \in {-1, 1} :
         /\ (q.row + 2 * dr) \in Idx /\ (q.col + 2 * dc) \in Idx
         /\ b[q.row + dr][q.col + dc].player = Other(p)
         /\ b[q.row + 2 * dr][q.col + 2 * dc] = None

\* C16: a man that reaches its promotion row by a jump is promoted before
\* the continuation is looked for: the follow-up jumps from the landing
\* square are those of a king, so the chain continues (same player,
\* mustJumpFrom = landing square) whenever a backward capture is open, and
\* the piece is a king for the rest of the chain.
C16_CrownedBeforeContinuation ==
  /\ CrownedByJump =>
       /\ board[last.move.to.row][last.move.to.col] = Piece(Mover.player, TRUE)
       /\ call.sim.newBoard[last.move.to.row][last.move.to.col]
            = Piece(Mover.player, TRUE)
       /\ BackwardCapture(board, last.move.to, Mover.player)
            <=> (mustJumpFrom = last.move.to /\ turn = last.player)
       /\ BackwardCapture(call.sim.newBoard, last.move.to, Mover.player)
            <=> (/\ call.sim.nextMustJumpFrom = last.move.to
                 /\ call.sim.nextTurn = last.player)
  /\ (last.op = "move" /\ last.preMustJumpFrom = last.move.from)
       => (Mover.isKing => board[last.move.to.row][last.move.to.col].isKing)

\* a man crowned by a jump has to jump again, backwards
C16_Witness ==
  /\ CrownedByJump
  /\ BackwardCapture(board, last.move.to, Mover.player)
  /\ mustJumpFrom = last.move.to
  /\ call.sim.nextMustJumpFrom = last.move.to

----------------------------------------------------------------------------
(* C17 *)

\* the player has no legal move on the board: no piece, or no piece that
\* can move
CannotMove(b, player) == LegalMoves(b, player, NoPos) = {}

\* C17: whenever the turn passes to a player who has no piece or no piece
\* with a legal move, winner is set to the other player in that same step;
\* winner is never set to a player while the opponent, who is to move,
\* still has a legal move; and while the game goes on, in the middle of a
\* chain or with the AI about to move, no winner is set and the AI has a
\* move, so that getAiMove returning null, which makes red the winner, is
\* a loss already declared.
C17_WinnerIffNoLegalMove ==
  /\ (last.op = "executeMove" /\ turn # last.player)
       => winner = (IF CannotMove(board, turn) THEN Other(turn) ELSE "none")
  /\ (last.op = "executeMove" /\ turn = last.player) => winner = "none"
  /\ winner # "none" => (turn = Other(winner) /\ CannotMove(board, turn))
  /\ timer => LegalMoves(board, "black", mustJumpFrom) # {}

\* the turn passed to a player with pieces and no legal move
C17_Witness ==
  /\ last.op = "executeMove"
  /\ turn # last.player
  /\ SquaresOf(board, turn) # {}
  /\ CannotMove(board, turn)
  /\ winner = last.player

----------------------------------------------------------------------------
(* C19 *)

RECURSIVE PlainValue(_, _, _, _, _)
RECURSIVE PlainFold(_, _, _, _, _, _, _)
RECURSIVE Cuts(_, _, _, _, _, _, _)
RECURSIVE CutsLoop(_, _, _, _, _, _, _, _)

\* the plain value of the node a recursive call leads to
PlainChildValue(child, player) ==
  PlainValue(child.newBoard, child.nextDepth, child.nextMaximizing, player,
             child.nextMustJumpFrom)

\* the best plain value of the moves of a node from move i on, no cutoff
PlainFold(b, depth, maximizingPlayer, player, moves, i, best) ==
  IF i > Len(moves) THEN best
  ELSE LET value == PlainChildValue(
                      IF maximizingPlayer
                        THEN MaxChild(b, depth, player, moves[i])
                        ELSE MinChild(b, depth, player, moves[i]),
                      player)
       IN  PlainFold(b, depth, maximizingPlayer, player, moves, i + 1,
                     IF maximizingPlayer THEN Max(best, value)
                                         ELSE Min(best, value))

\* minimax without alpha and beta: the same leaves, the same scores of a
\* side without a move, the same rule for a chain that continues
PlainValue(b, depth, maximizingPlayer, player, mjf) ==
  IF depth = 0 THEN evaluateBoard(b, player)
  ELSE LET moves == MinimaxMoves(b, maximizingPlayer, player, mjf)
       IN  IF Len(moves) = 0
             THEN (IF maximizingPlayer THEN -10000 ELSE 10000)
             ELSE PlainFold(b, depth, maximizingPlayer, player, moves, 1,
                            IF maximizingPlayer THEN 0 - Infinity ELSE Infinity)

\* a loop of the call tree of minimax with this window leaves moves out
Cuts(b, depth, alpha, beta, maximizingPlayer, player, mjf) ==
  /\ depth # 0
  /\ CutsLoop(b, depth, alpha, beta, maximizingPlayer, player,
              MinimaxMoves(b, maximizingPlayer, player, mjf), 1)

CutsLoop(b, depth, alpha, beta, maximizingPlayer, player, moves, i) ==
  /\ i <= Len(moves)
  /\ LET child == IF maximizingPlayer
                    THEN MaxChild(b, depth, player, moves[i])
                    ELSE MinChild(b, depth, player, moves[i])
         value == ChildValue(child, alpha, beta, player)
         newAlpha == IF maximizingPlayer THEN Max(alpha, value) ELSE alpha
         newBeta == IF maximizingPlayer THEN beta ELSE Min(beta, value)
     IN  \/ Cuts(child.newBoard, child.nextDepth, alpha, beta,
                 child.nextMaximizing, player, child.nextMustJumpFrom)
         \/ (newBeta <= newAlpha /\ i < Len(moves))
         \/ /\ newBeta > newAlpha
            /\ CutsLoop(b, depth, newAlpha, newBeta, maximizingPlayer, player,
                        moves, i + 1)

\* C19: alpha-beta pruning does not change the result of the search: for
\* every position, depth, side to move and forced square, minimax called
\* with alpha = -Infinity and beta = Infinity returns the value of the
\* same search without cutoffs.
C19_PruningKeepsTheValue ==
  call.op = "minimax" =>
    call.value = PlainValue(board, call.depth, call.flag, call.player, call.pos)

\* a call at the largest depth in which a loop left moves out
C19_Witness ==
  /\ call.op = "minimax"
  /\ call.depth = MaxDepth
  /\ Cuts(board, call.depth, 0 - Infinity, Infinity, call.flag, call.player,
          call.pos)
  /\ call.value = PlainValue(board, call.depth, call.flag, call.player, call.pos)

----------------------------------------------------------------------------
(* C20 *)

\* C20: executeMove and simulateMove agree: on every board, for the player
\* to move and every move getValidMoves produces for that player, neither
\* throws and both give the same next board, the same next player to move
\* and the same square of a capture that continues (mustJumpFrom of the
\* App, nextMustJumpFrom of the search).
C20_ApplicatorsAgree ==
  last.op = "move" =>
    /\ ~last.threw
    /\ ~call.sim.threw
    /\ call.sim.newBoard = board
    /\ call.sim.nextTurn = turn
    /\ call.sim.nextMustJumpFrom = mustJumpFrom

\* a jump after which both applicators keep the turn with the mover and
\* name the landing square, on a board both give alike
C20_Witness ==
  /\ last.op = "move"
  /\ last.move.isJump
  /\ mustJumpFrom = last.move.to
  /\ turn = last.player
  /\ call.sim.nextMustJumpFrom = mustJumpFrom
  /\ call.sim.nextTurn = turn
  /\ call.sim.newBoard = board
  /\ board # last.pre

----------------------------------------------------------------------------
(* C21 *)

\* a human is to move: no winner, and red's turn or PvP mode
HumanToMove == winner = "none" /\ (turn = "red" \/ gameMode = "pvp")

\* C21: isAiThinking is true only while a timer of the AI turn effect is
\* pending (AI mode, black to move, no winner); so in every reachable
\* state in which a human is to move isAiThinking is false and
\* handleSquareClick does not ignore the clicks of that human.
C21_ThinkingOnlyWhileTimerPending ==
  /\ isAiThinking => (timer /\ AiToMove(gameMode, turn, winner))
  /\ HumanToMove => ~isAiThinking

----------------------------------------------------------------------------
(* C22 *)

\* C22: in every reachable state of the App, a non-null mustJumpFrom names
\* a square that holds a piece of the player to move, and that piece has a
\* jump on the current board; and a move applied while mustJumpFrom was
\* non-null, by a click or by getAiMove, is a jump from that square.
C22_ForcedSquareHoldsAJumper ==
  /\ mustJumpFrom # NoPos =>
       /\ board[mustJumpFrom.row][mustJumpFrom.col] # None
       /\ board[mustJumpFrom.row][mustJumpFrom.col].player = turn
       /\ HasCapture(board, mustJumpFrom)
       /\ SomeJump(getValidMoves(board, mustJumpFrom, FALSE))
  /\ (last.op = "executeMove" /\ last.preMustJumpFrom # NoPos) =>
       /\ last.move.isJump
       /\ last.move.from = last.preMustJumpFrom

\* the AI applied the second jump of a capture that continued
C22_Witness ==
  /\ last.op = "executeMove"
  /\ last.by = "ai"
  /\ last.preMustJumpFrom # NoPos
  /\ last.pre[last.preMustJumpFrom.row][last.preMustJumpFrom.col].player = "black"
  /\ HasCapture(last.pre, last.preMustJumpFrom)
  /\ last.move.isJump
  /\ last.move.from = last.preMustJumpFrom

----------------------------------------------------------------------------
(* C23 *)

\* board, turn or mustJumpFrom differ after the step
PositionChanges ==
  <<board, turn, mustJumpFrom>>' # <<board, turn, mustJumpFrom>>

\* C23: once winner is non-null, no step of a click or of the AI timer
\* changes board, turn or mustJumpFrom; a step that changes them is a
\* resetGame (no move applied since), and it leaves the initial board,
\* turn = red, winner = null and mustJumpFrom = null.
C23_FrozenUntilReset ==
  [][(winner # "none" /\ PositionChanges) =>
       /\ moveCount' = 0
       /\ last' = NoLast
       /\ board' = initializeBoard
       /\ turn' = "red"
       /\ winner' = "none"
       /\ mustJumpFrom' = NoPos]_vars

\* the AI won and the mode was changed afterwards: a step was taken with a
\* winner, and the position is still the one of the winning move
C23_Witness ==
  /\ winner = "black"
  /\ last.op = "executeMove"
  /\ last.by = "ai"
  /\ gameMode = "pvp"
  /\ board = executeMove(last.pre, last.player, last.move).board
  /\ turn = "red"
  /\ mustJumpFrom = NoPos

====
